---- MODULE Spec2Model ----
(***************************************************************************)
(* Matrix-style profile stream: main.js (src/unnamed/part_000) and the NYC *)
(* profile supplier (data/nyc.js).                                         *)
(*                                                                         *)
(* The module holds several specifications over one set of variables, one  *)
(* per component; the variables a specification does not use keep the      *)
(* value they have after construction.                                     *)
(*   SpecGeom   the glyph-column count of resetColumns / update            *)
(*   SpecEnc    StringPainter encoding as used by buildLines               *)
(*   SpecRain   the glyph columns (spawn, advance, recycle, rebind)        *)
(*   SpecPanel  the file-strip pool (resetColumns, update, compositions)   *)
(*   SpecData   DataSource, NYCProfileService.fetchProfiles and its cache, *)
(*              MatrixRain.takeNextProfile                                 *)
(*                                                                         *)
(* Units.  densityScale is held in hundredths (100 is 1.0), so that        *)
(* 40 * densityScale and (w / size) * 0.7 * densityScale are exact integer *)
(* divisions; the code computes them in binary floating point.             *)
(* Text is a sequence of one-character strings.                            *)
(* speedScale is in hundredths, a column's y in thousandths of a pixel,    *)
(* its speed in hundredths of px/s, dt and headHighlightTimer in ms.        *)
(***************************************************************************)
EXTENDS Integers, Sequences, FiniteSets, TLC

VARIABLES
  \* CONFIG and the surface
  densityScale,    \* CONFIG.densityScale, in hundredths
  clientWidth,     \* canvas.clientWidth
  source,          \* CONFIG.source: "fake" | "nyc"
  borough,         \* CONFIG.borough (CONFIG.nta stays '')
  \* DataSource
  cachedProfiles,  \* the pool: let cachedProfiles
  \* NYCProfileService
  storage,         \* localStorage: cache key -> NoEntry or [t, v]
  now,             \* Date.now(), in ms
  fetches,         \* the cache keys of the fetchProfiles calls awaiting sodaFetch
  nextList,        \* the number the next generated or synthesized list gets
  lastOp,          \* what the latest DataSource / supplier operation did
  \* MatrixRain
  profilePool,     \* this.profilePool
  fileStrips,      \* this.fileStrips: each strip is the number of the call that
                   \* requested its composition
  profileIndex,    \* this.profileIndex
  \* the calls (resetColumns, update) that requested panel compositions, in
  \* order: what each requested and how many of its compositions are in flight
  calls,
  \* SpecGeom: the column count last computed, and the one before it
  geomOut,
  geomPrev,
  \* CONFIG and the surface, continued
  mode,            \* CONFIG.mode: "file" | "glyph"
  stringStyle,     \* CONFIG.stringStyle: "json" | "kv" | "code"
  speedScale,      \* CONFIG.speedScale, in hundredths
  clientHeight,    \* canvas.clientHeight
  \* MatrixRain, glyph mode
  columns,         \* this.columns
  columnCount,     \* this.columnCount
  frames,          \* the number of ticks run
  lastTick,        \* what the latest tick did
  rafPending,      \* tick callbacks requestAnimationFrame has scheduled
  strip,           \* SpecStrip: one FileStrip of the pool
  \* SpecEnc: the profile and style encoded, and what the encodings gave
  encProfile,
  encStyle,
  encPainter,      \* the StringPainter constructed last
  encText,         \* buildLines' text
  encBuffer        \* spawnColumn's textBuffer

confVars == <<densityScale, clientWidth, mode, stringStyle, speedScale, clientHeight>>
panelVars == <<fileStrips, calls>>
poolVars == <<profilePool, profileIndex>>
dataVars == <<source, borough, cachedProfiles, storage, now, fetches, nextList, lastOp>>
geomVars == <<geomOut, geomPrev>>
rainVars == <<columns, columnCount, frames, lastTick, rafPending, strip>>
encVars == <<encProfile, encStyle, encPainter, encText, encBuffer>>
vars == <<densityScale, clientWidth, source, borough, cachedProfiles, storage,
          now, fetches, nextList, lastOp, profilePool, fileStrips, profileIndex,
          calls, geomOut, geomPrev, mode, stringStyle, speedScale, clientHeight,
          columns, columnCount, frames, lastTick, rafPending, strip, encProfile,
          encStyle, encPainter, encText, encBuffer>>

-----------------------------------------------------------------------------
(* Utilities *)

Min2(a, b) == IF a < b THEN a ELSE b
Max2(a, b) == IF a > b THEN a ELSE b

\* function clamp(v, a, b) { return v < a ? a : v > b ? b : v; }
clamp(v, a, b) == IF v < a THEN a ELSE IF v > b THEN b ELSE v

Range(s) == {s[i] : i \in 1..Len(s)}

-----------------------------------------------------------------------------
(* CONFIG and MatrixRain constants *)

glyphSize == 16
maxColumns == 160

\* density slider positions, in hundredths: 0.2 .. 2.0
DensityValues == {20, 100, 125, 160, 200}

\* surface widths, in CSS pixels
WidthValues == {0, 102, 103, 200, 384, 1828, 1829, 4000}

-----------------------------------------------------------------------------
(* Glyph-column count *)

\* Math.floor of the product (w / size) * 0.7 * densityScale.  The code forms it
\* in IEEE-754 doubles, in two different orders: resetColumns multiplies w / size
\* by the rounded 0.7 * densityScale, update multiplies (w / size) * 0.7 by
\* densityScale.  At the inputs below the rounded product falls just under the
\* integer the exact product reaches, and the floor is one less (the two tables
\* are the double-precision results for WidthValues \X DensityValues; at no
\* input of the range is the floor above the exact one).
ResetRoundsDown == {<<200, 160>>, <<4000, 20>>, <<4000, 160>>}
UpdateRoundsDown == {<<384, 125>>}

floorProduct(w, d, roundsDown) ==
  ((w * 7 * d) \div (glyphSize * 1000)) - (IF <<w, d>> \in roundsDown THEN 1 ELSE 0)

\* resetColumns: density = 0.7 * CONFIG.densityScale;
\*   clamp(Math.max(8, Math.floor((w / size) * density)), 8, CONFIG.maxColumns)
numCols_noUpperClamp(w, d) == Max2(8, floorProduct(w, d, ResetRoundsDown))

numCols(w, d) ==
  clamp(Max2(8, floorProduct(w, d, ResetRoundsDown)), 8, maxColumns)

\* update: clamp(Math.max(8, Math.floor((canvas.clientWidth / size) * 0.7
\*   * CONFIG.densityScale)), 8, CONFIG.maxColumns)
desiredCols(w, d) ==
  clamp(Max2(8, floorProduct(w, d, UpdateRoundsDown)), 8, maxColumns)

\* the variables of DataSource and the supplier, where they are not used
DataIdle ==
  /\ source = "fake"
  /\ borough = <<>>
  /\ cachedProfiles = <<>>
  /\ storage = <<>>
  /\ now = 0
  /\ fetches = <<>>
  /\ nextList = 0
  /\ lastOp = [op |-> "none"]
  /\ profilePool = <<>>
  /\ profileIndex = 0

\* the variables of the file-strip pool, where they are not used
PanelIdle ==
  /\ fileStrips = <<>>
  /\ calls = <<>>

GeomNone == [by |-> "none", w |-> 0, d |-> 0, n |-> 0]

GeomIdle ==
  /\ geomOut = GeomNone
  /\ geomPrev = GeomNone

\* CONFIG as written (mode 'file', stringStyle 'json', speedScale 1.0) on a
\* surface 800 high
ConfOther ==
  /\ mode = "file"
  /\ stringStyle = "json"
  /\ speedScale = 100
  /\ clientHeight = 800

ConfDefault ==
  /\ densityScale = 100
  /\ clientWidth = 1000
  /\ ConfOther

NoStrip == [bitmap |-> 0, w |-> 0, h |-> 0, x |-> 0, y |-> 0, speed |-> 0, jitterTimer |-> 0]

NoTick == [elapsed |-> 0, dt |-> 0, did |-> <<>>, reset |-> FALSE, recycled |-> {}]

\* the glyph columns, where they are not used; bootstrap has scheduled the
\* first tick
RainIdle ==
  /\ columns = <<>>
  /\ columnCount = 0
  /\ frames = 0
  /\ lastTick = NoTick
  /\ rafPending = 1
  /\ strip = NoStrip

NoProfile == [src |-> "none", list |-> 0, i |-> 0]

NoPainter ==
  [profile |-> NoProfile, mode |-> "none", string |-> <<>>,
   keyCharPositions |-> {}]

\* the encoding variables, where they are not used
EncIdle ==
  /\ encProfile = NoProfile
  /\ encStyle = "none"
  /\ encPainter = NoPainter
  /\ encText = <<>>
  /\ encBuffer = <<>>

\* the surface is w wide and the density d when resetColumns computes numCols
GeomResetColumns(w, d) ==
  /\ UNCHANGED <<panelVars, poolVars, dataVars, rainVars, encVars>>
  /\ UNCHANGED <<mode, stringStyle, speedScale, clientHeight>>
  /\ clientWidth' = w
  /\ densityScale' = d
  /\ geomPrev' = geomOut
  /\ geomOut' = [by |-> "resetColumns", w |-> w, d |-> d, n |-> numCols(w, d)]

\* the surface is w wide and the density d when update computes desiredCols
GeomUpdate(w, d) ==
  /\ UNCHANGED <<panelVars, poolVars, dataVars, rainVars, encVars>>
  /\ UNCHANGED <<mode, stringStyle, speedScale, clientHeight>>
  /\ clientWidth' = w
  /\ densityScale' = d
  /\ geomPrev' = geomOut
  /\ geomOut' = [by |-> "update", w |-> w, d |-> d, n |-> desiredCols(w, d)]

InitGeom ==
  /\ densityScale \in DensityValues
  /\ clientWidth \in WidthValues
  /\ geomOut = [by |-> "resetColumns", w |-> clientWidth, d |-> densityScale,
                n |-> numCols(clientWidth, densityScale)]
  /\ geomPrev = GeomNone
  /\ ConfOther
  /\ PanelIdle
  /\ DataIdle
  /\ RainIdle
  /\ EncIdle

NextGeom ==
  \/ \E w \in WidthValues, d \in DensityValues : GeomResetColumns(w, d)
  \/ \E w \in WidthValues, d \in DensityValues : GeomUpdate(w, d)

SpecGeom == InitGeom /\ [][NextGeom]_vars

\* C7: for every density in [0.2, 2.0] and every width the column count computed
\* by resetColumns, and the one computed by update, lies in [8, maxColumns], and
\* of two computations by the same handler the one with the larger width (same
\* density) or the larger density (same width) gives at least as many columns.
C7_ColumnCountBoundedMonotone ==
  /\ geomOut.n \in 8..maxColumns
  /\ geomPrev.by = geomOut.by =>
       /\ (geomPrev.d = geomOut.d /\ geomPrev.w <= geomOut.w) => geomPrev.n <= geomOut.n
       /\ (geomPrev.d = geomOut.d /\ geomPrev.w >= geomOut.w) => geomPrev.n >= geomOut.n
       /\ (geomPrev.w = geomOut.w /\ geomPrev.d <= geomOut.d) => geomPrev.n <= geomOut.n
       /\ (geomPrev.w = geomOut.w /\ geomPrev.d >= geomOut.d) => geomPrev.n >= geomOut.n

\* update computed the minimum for a narrow surface and then, at the same
\* density, the maximum for a wider one
C7_Witness ==
  /\ geomPrev.by = "update" /\ geomOut.by = "update"
  /\ geomPrev.d = geomOut.d /\ geomPrev.w < geomOut.w
  /\ geomPrev.n = 8 /\ geomOut.n = maxColumns

\* clamp(Math.floor(40 * CONFIG.densityScale), 10, 100)
target(d) == clamp((40 * d) \div 100, 10, 100)

-----------------------------------------------------------------------------
(* Profiles, DataSource, NYCProfileService *)

\* A profile is known here by where it came from: the i-th element of the
\* generated ("fake"), synthesized ("nyc") or embedded ("sample") list number
\* `list`.  ProfileFactory.generate and synthesizeProfileFromDemographics draw
\* fresh records on every call, so two lists never share a profile.
Profile(src, list, i) == [src |-> src, list |-> list, i |-> i]

\* const SAMPLE_PROFILES = [ {id: 'smpl-1', ...}, {id: 'smpl-2', ...} ]
SAMPLE_PROFILES == <<Profile("sample", 0, 1), Profile("sample", 0, 2)>>

\* const ONE_HOUR_MS = 60 * 60 * 1000
ONE_HOUR_MS == 60 * 60 * 1000

\* the most lists generated or synthesized in one behaviour
MaxLists == 3
\* the most fetchProfiles calls awaiting the network at once
MaxFetches == 1
\* the numbers of rows a query returns (the code asks for at most 400)
RowCounts == {1, 2}
\* the clock runs to MaxHours hours, and a millisecond past each hour
MaxHours == 1
\* the most calls of takeNextProfile in one behaviour
MaxProfileIndex == 80

BoroughValues == {<<>>, <<"Q", "u", "e", "e", "n", "s">>}

\* the counts getProfiles is called with
CountValues == {0, 3}

NoEntry == [t |-> -1, v |-> <<>>]
\* getCache's null, told apart from every list
Null == <<[src |-> "null", list |-> 0, i |-> 0]>>

\* generateFakeBatch(n): Array.from({ length: n }, () => ProfileFactory.generate())
generateFakeBatch(n, id) == [i \in 1..n |-> Profile("fake", id, i)]

\* rows.map(synthesizeProfileFromDemographics)
synthesize(n, id) == [i \in 1..n |-> Profile("nyc", id, i)]

\* takeLoop(arr, n): out.push(arr[i % arr.length]) for i in 0..n-1; with an empty
\* arr the index is NaN and the element undefined
Undefined == [src |-> "undefined", list |-> 0, i |-> 0]

takeLoop_noWrap(arr, n) ==
  [i \in 1..n |-> IF i <= Len(arr) THEN arr[i] ELSE Undefined]

takeLoop(arr, n) ==
  [i \in 1..n |-> IF Len(arr) = 0 THEN Undefined ELSE arr[((i - 1) % Len(arr)) + 1]]

\* getCache(key): null when there is no entry, or Date.now() - t > ONE_HOUR_MS.
\* An entry is written by setCache alone and JSON.parse gives back the list
\* JSON.stringify was given (profiles hold strings, finite numbers and arrays of
\* them), so the try never throws on an entry.
getCache_noExpiry(store, key, t) ==
  IF store[key] = NoEntry THEN Null ELSE store[key].v

getCache(store, key, t) ==
  IF store[key] = NoEntry THEN Null
  ELSE IF t - store[key].t > ONE_HOUR_MS THEN Null
  ELSE store[key].v

\* setCache(key, v): localStorage.setItem in a try; a failed write (storage full
\* or unavailable) is swallowed and leaves the store as it was
setCache(store, key, v, t, written) ==
  IF written THEN [store EXCEPT ![key] = [t |-> t, v |-> v]] ELSE store

\* DataSource.getProfiles: .then(list => { if (Array.isArray(list) && list.length)
\*   cachedProfiles = list; })
RefreshThen_keep(pool, list) == pool

RefreshThen(pool, list) == IF Len(list) > 0 THEN list ELSE pool

\* fetchProfiles, the catch of its try: return SAMPLE_PROFILES
fetchProfilesCatch_rethrow == [settled |-> "rejected", list |-> <<>>]

fetchProfilesCatch == [settled |-> "resolved", list |-> SAMPLE_PROFILES]

\* what sodaFetch can end in: rows (a non-empty array), an empty array, a
\* response that is not ok (throws HTTP <status>), a rejected fetch
Outcomes == {"rows", "empty", "notok", "reject"}

\* fetchProfiles from `await sodaFetch` on: the promise it settles with, and
\* whether it calls setCache
fetchProfilesAfter(outcome, n, id) ==
  CASE outcome = "rows" ->
         [settled |-> "resolved", list |-> synthesize(n, id), cache |-> TRUE]
    [] outcome = "empty" ->
         [settled |-> "resolved", list |-> SAMPLE_PROFILES, cache |-> TRUE]
    [] OTHER ->
         [settled |-> fetchProfilesCatch.settled, list |-> fetchProfilesCatch.list,
          cache |-> FALSE]

\* the pool getProfiles reads: seeded when empty (external source) or topped up
\* when smaller than wantCount (synthetic source)
seedPool(src, pool, wantCount, id) ==
  IF src = "nyc"
    THEN IF Len(pool) = 0 THEN generateFakeBatch(wantCount, id) ELSE pool
    ELSE IF Len(pool) < wantCount
           THEN generateFakeBatch(Max2(wantCount, 128), id) ELSE pool

\* DataSource.getProfiles(wantCount) up to its return, and the start of the
\* fetchProfiles call it makes: the list returned, the pool it was taken from,
\* the cache lookup of fetchProfiles and whether a query goes out
getProfiles(src, pool, store, key, t, wantCount, id) ==
  LET seeded == seedPool(src, pool, wantCount, id)
      cached == IF src = "nyc" THEN getCache(store, key, t) ELSE Null
  IN [out |-> takeLoop(seeded, wantCount),
      pool |-> seeded,
      fetch |-> src = "nyc",
      cached |-> cached,
      query |-> src = "nyc" /\ cached = Null,
      fresh |-> seeded # pool]

\* the state getProfiles leaves.  A cache hit resolves fetchProfiles at once and
\* the .then callback runs when the calling task ends, before any other task:
\* it is part of this step, after the return value was taken.
ApplyGetProfiles(r, key) ==
  /\ cachedProfiles' = IF r.fetch /\ r.cached # Null
                         THEN RefreshThen(r.pool, r.cached) ELSE r.pool
  /\ fetches' = IF r.query THEN Append(fetches, key) ELSE fetches
  /\ nextList' = IF r.fresh THEN nextList + 1 ELSE nextList

\* MatrixRain.takeNextProfile, n times in one task (resetColumns spawns a strip
\* per target slot; update spawns the deficit): the profiles bound
takeProfiles(pool, index, n) ==
  [i \in 1..n |-> pool[((index + i - 1) % Len(pool)) + 1]]

\* what the last getProfiles call saw of the cache
FetchSeen(r, key) ==
  [key |-> key,
   had |-> storage[key] # NoEntry,
   age |-> IF storage[key] # NoEntry THEN now - storage[key].t ELSE 0,
   entry |-> storage[key].v,
   via |-> IF ~r.fetch THEN "none" ELSE IF r.cached # Null THEN "cache" ELSE "network",
   list |-> r.cached,
   queried |-> r.query]

\* a caller asks DataSource for wantCount profiles
GetProfilesCall(wantCount) ==
  LET r == getProfiles(source, cachedProfiles, storage, borough, now, wantCount, nextList)
  IN /\ r.query => Len(fetches) < MaxFetches
     /\ r.fresh => nextList < MaxLists
     /\ ApplyGetProfiles(r, borough)
     /\ lastOp' = [op |-> "getProfiles", count |-> wantCount, out |-> r.out,
                   pool |-> r.pool, seen |-> FetchSeen(r, borough)]
     /\ UNCHANGED <<source, borough, storage, now, poolVars, confVars, geomVars, rainVars, encVars,
                    panelVars>>

\* n calls of takeNextProfile.  The pool is filled by the first call, in the
\* constructor, and never emptied, so DataSource is asked only when it is empty.
BindProfiles(n) ==
  /\ profileIndex + n <= MaxProfileIndex
  /\ IF Len(profilePool) = 0
       THEN LET r == getProfiles(source, cachedProfiles, storage, borough, now, 64,
                                 nextList)
            IN /\ r.query => Len(fetches) < MaxFetches
               /\ r.fresh => nextList < MaxLists
               /\ ApplyGetProfiles(r, borough)
               /\ profilePool' = r.out
               /\ lastOp' = [op |-> "bind", bound |-> takeProfiles(r.out, 0, n)]
               /\ profileIndex' = n
       ELSE /\ UNCHANGED <<cachedProfiles, fetches, nextList, profilePool>>
            /\ lastOp' = [op |-> "bind",
                          bound |-> takeProfiles(profilePool, profileIndex, n)]
            /\ profileIndex' = profileIndex + n

\* triggerDataRefresh: rain.resetColumns(), which in file mode requests a strip
\* per target slot (the strips themselves are the matter of SpecPanel)
triggerDataRefresh ==
  /\ BindProfiles(target(densityScale))
  /\ UNCHANGED <<storage, now, confVars, geomVars, rainVars, encVars, panelVars>>

\* qs('source') change: CONFIG.source = value; triggerDataRefresh()
SetSource(s) ==
  /\ source # s
  /\ source' = s
  /\ borough' = borough
  /\ triggerDataRefresh

\* qs('borough') change: CONFIG.borough = value; triggerDataRefresh()
SetBorough(b) ==
  /\ borough # b
  /\ borough' = b
  /\ source' = source
  /\ triggerDataRefresh

\* btnRefresh click: triggerDataRefresh
ClickRefresh ==
  /\ UNCHANGED <<source, borough>>
  /\ triggerDataRefresh

\* the i-th fetchProfiles call awaiting the network settles: sodaFetch ends in
\* `outcome` (n rows), setCache writes or not, and the .then / .catch of
\* getProfiles runs
FetchSettle(i, outcome, n, written) ==
  LET key == fetches[i]
      r == fetchProfilesAfter(outcome, n, nextList)
      pool == IF r.settled = "resolved" THEN RefreshThen(cachedProfiles, r.list)
              ELSE cachedProfiles
  IN /\ outcome = "rows" => nextList < MaxLists
     /\ outcome # "rows" => n = 1
     /\ ~r.cache => written
     /\ fetches' = SubSeq(fetches, 1, i - 1) \o SubSeq(fetches, i + 1, Len(fetches))
     /\ storage' = IF r.cache THEN setCache(storage, key, r.list, now, written)
                   ELSE storage
     /\ cachedProfiles' = pool
     /\ nextList' = IF outcome = "rows" THEN nextList + 1 ELSE nextList
     /\ lastOp' = [op |-> "settle", outcome |-> outcome, settled |-> r.settled,
                   list |-> r.list, before |-> cachedProfiles, after |-> pool]
     /\ UNCHANGED <<source, borough, now, poolVars, confVars, geomVars, rainVars,
                    encVars, panelVars>>

\* time passes: a millisecond, or an hour
ClockAdvance(delta) ==
  /\ now + delta <= MaxHours * ONE_HOUR_MS + 1
  /\ delta = 1 => (now % ONE_HOUR_MS) = 0
  /\ now' = now + delta
  /\ UNCHANGED <<source, borough, cachedProfiles, storage, fetches, nextList, lastOp,
                 poolVars, confVars, geomVars, rainVars, encVars, panelVars>>

\* the state after construction with CONFIG.source = src: the constructor's
\* resetColumns took the first profiles, and the first takeNextProfile asked
\* DataSource for 64
DataConstructed(src, n) ==
  LET empty == [b \in BoroughValues |-> NoEntry]
      r == getProfiles(src, <<>>, empty, <<>>, 0, 64, 1)
  IN /\ source = src
     /\ borough = <<>>
     /\ storage = empty
     /\ now = 0
     /\ cachedProfiles = r.pool
     /\ fetches = IF r.query THEN <<(<<>>)>> ELSE <<>>
     /\ nextList = 2
     /\ profilePool = r.out
     /\ profileIndex = n
     /\ lastOp = [op |-> "bind", bound |-> takeProfiles(r.out, 0, n)]

InitData ==
  /\ \E src \in {"fake", "nyc"} : DataConstructed(src, target(100))
  /\ ConfDefault
  /\ fileStrips = <<>>
  /\ calls = <<>>
  /\ GeomIdle
  /\ RainIdle
  /\ EncIdle

NextData ==
  \/ \E n \in CountValues : GetProfilesCall(n)
  \/ \E s \in {"fake", "nyc"} : SetSource(s)
  \/ \E b \in BoroughValues : SetBorough(b)
  \/ ClickRefresh
  \/ \E i \in 1..Len(fetches), o \in Outcomes, n \in RowCounts, w \in BOOLEAN :
       FetchSettle(i, o, n, w)
  \/ \E delta \in {1, ONE_HOUR_MS} : ClockAdvance(delta)

SpecData == InitData /\ [][NextData]_vars

FailedOutcomes == {"notok", "reject"}

\* C2: when the asynchronous refresh fails (network error or a response that is
\* not ok), the DataSource pool after the refresh settles is the list it held
\* before: a failed refresh never replaces the pool.
C2_FailedRefreshKeepsPool ==
  (lastOp.op = "settle" /\ lastOp.outcome \in FailedOutcomes)
    => lastOp.after = lastOp.before

\* C2, amended: when the refresh's query fails, fetchProfiles resolves to the
\* fallback sample list and the DataSource pool after the refresh settles is
\* that sample list, whatever it held before.
C2_FailedRefreshInstallsSamples ==
  (lastOp.op = "settle" /\ lastOp.outcome \in FailedOutcomes)
    => lastOp.after = SAMPLE_PROFILES

\* a rejected fetch settled while the pool held generated profiles, which the
\* sample list replaced
C2_Witness ==
  /\ lastOp.op = "settle" /\ lastOp.outcome = "reject"
  /\ lastOp.before # SAMPLE_PROFILES /\ Len(lastOp.before) > 0
  /\ lastOp.after = SAMPLE_PROFILES /\ cachedProfiles = SAMPLE_PROFILES

\* a successful refresh has replaced the pool with synthesized profiles
Refreshed == Len(cachedProfiles) > 0 /\ cachedProfiles[1].src = "nyc"

\* C3: with the external source selected, once a refresh has completed
\* successfully, every profile bound by takeNextProfile from then on comes from
\* the refreshed list.
C3_BindsFromRefreshedPool ==
  [][(profileIndex' # profileIndex /\ Refreshed /\ source = "nyc" /\ source' = "nyc")
       => Range(lastOp'.bound) \subseteq Range(cachedProfiles')]_vars

\* C4: fetchProfiles never returns a cache entry older than ONE_HOUR_MS, and a
\* call whose key has an entry within ONE_HOUR_MS returns that entry's list and
\* sends no query.
C4_CacheWithinTtlOnly ==
  (lastOp.op = "getProfiles" /\ lastOp.seen.via # "none") =>
    /\ lastOp.seen.via = "cache" =>
         /\ lastOp.seen.had
         /\ lastOp.seen.age <= ONE_HOUR_MS
         /\ lastOp.seen.list = lastOp.seen.entry
    /\ (lastOp.seen.had /\ lastOp.seen.age <= ONE_HOUR_MS) =>
         /\ lastOp.seen.via = "cache"
         /\ ~lastOp.seen.queried
    /\ (lastOp.seen.had /\ lastOp.seen.age > ONE_HOUR_MS) =>
         /\ lastOp.seen.via = "network"
         /\ lastOp.seen.queried

\* an entry exactly ONE_HOUR_MS old was returned from the cache
C4_Witness ==
  /\ lastOp.op = "getProfiles" /\ lastOp.seen.via = "cache"
  /\ lastOp.seen.age = ONE_HOUR_MS
  /\ ~lastOp.seen.queried

\* C5: when the query fails (fetch rejects or the response is not ok) the
\* promise of fetchProfiles is resolved, not rejected, and its value is the
\* embedded sample list.
C5_FailureResolvesToSamples ==
  (lastOp.op = "settle" /\ lastOp.outcome \in FailedOutcomes) =>
    /\ lastOp.settled = "resolved"
    /\ lastOp.list = SAMPLE_PROFILES

\* a response that was not ok settled as the sample list
C5_Witness ==
  /\ lastOp.op = "settle" /\ lastOp.outcome = "notok"
  /\ lastOp.settled = "resolved" /\ lastOp.list = SAMPLE_PROFILES

\* C6: getProfiles(count) returns exactly count profiles, the i-th (from 0) the
\* pool's element at index i mod poolSize, none undefined.
C6_GetProfilesCyclic ==
  lastOp.op = "getProfiles" =>
    /\ Len(lastOp.out) = lastOp.count
    /\ lastOp.count > 0 => Len(lastOp.pool) > 0
    /\ \A i \in 0..(lastOp.count - 1) :
         /\ lastOp.out[i + 1] = lastOp.pool[(i % Len(lastOp.pool)) + 1]
         /\ lastOp.out[i + 1] # Undefined

\* more profiles were asked for than the pool holds
C6_Witness ==
  /\ lastOp.op = "getProfiles"
  /\ Len(lastOp.pool) > 0 /\ lastOp.count > Len(lastOp.pool)
  /\ lastOp.out[Len(lastOp.pool) + 1] = lastOp.pool[1]

-----------------------------------------------------------------------------
(* File-strip pool (panel mode) *)

\* the most calls that request compositions in one behaviour
MaxCalls == 3

\* the densities the panel pool is run at, in hundredths
PanelDensityValues == {20, 30}

\* compositions requested and not yet completed
InFlight == LET RECURSIVE sum(_)
                sum(i) == IF i = 0 THEN 0 ELSE calls[i].left + sum(i - 1)
            IN sum(Len(calls))

\* n calls of spawnFileStrip by the handler `kind`: each takes the next profile
\* (takeNextProfile, synchronously) and starts a composition whose continuation
\* pushes the strip when it completes
RequestStrips(kind, n) ==
  /\ calls' = Append(calls, [kind |-> kind, issued |-> n, left |-> n])
  /\ profileIndex' = profileIndex + n

\* resetColumns in file mode (any handler that calls it: stringStyle, textCfg,
\* triggerDataRefresh, or the density slider set to the value it has)
PanelResetColumns ==
  /\ Len(calls) < MaxCalls
  /\ fileStrips' = <<>>
  /\ RequestStrips("resetColumns", target(densityScale))
  /\ UNCHANGED <<confVars, geomVars, rainVars, encVars, dataVars, profilePool>>

\* update(dt) in file mode: maintain the target count
PanelUpdate ==
  /\ IF Len(fileStrips) < target(densityScale)
       THEN /\ Len(calls) < MaxCalls
            /\ RequestStrips("update", target(densityScale) - Len(fileStrips))
            /\ UNCHANGED fileStrips
       ELSE /\ fileStrips' = SubSeq(fileStrips, 1, target(densityScale))
            /\ UNCHANGED <<calls, profileIndex>>
  /\ UNCHANGED <<confVars, geomVars, rainVars, encVars, dataVars, profilePool>>

\* the call whose composition completes next: compositions all do the same work
\* (composeFileBitmap ends in createImageBitmap) and are taken to complete in
\* the order they were requested
NextToComplete ==
  CHOOSE c \in 1..Len(calls) :
    calls[c].left > 0 /\ \A b \in 1..(c - 1) : calls[b].left = 0

\* a composition requested by call c completes: .then(s => fileStrips.push(s))
ComposeDone(c) ==
  /\ calls[c].left > 0
  /\ c = NextToComplete
  /\ calls' = [calls EXCEPT ![c].left = @ - 1]
  /\ fileStrips' = Append(fileStrips, c)
  /\ UNCHANGED <<profileIndex, profilePool, confVars, geomVars, rainVars, encVars, dataVars>>

\* after construction: the constructor's resetColumns has requested the target
InitPanel ==
  /\ densityScale \in PanelDensityValues
  /\ clientWidth = 1000
  /\ fileStrips = <<>>
  /\ calls = <<[kind |-> "resetColumns", issued |-> target(densityScale),
                left |-> target(densityScale)]>>
  /\ DataConstructed("fake", target(densityScale))
  /\ ConfOther
  /\ GeomIdle
  /\ RainIdle
  /\ EncIdle

NextPanel ==
  \/ PanelResetColumns
  \/ PanelUpdate
  \/ \E c \in 1..Len(calls) : ComposeDone(c)

SpecPanel == InitPanel /\ [][NextPanel]_vars

\* C1: after a resetColumns call or an update tick, once the compositions that
\* call requested have completed, the pool holds exactly the target number of
\* strips (stated of the latest such call: no later call has cleared the pool
\* or requested more).
C1_PoolAtTargetWhenCallCompletes ==
  [][LET c == Len(calls) IN
       (calls' # calls /\ Len(calls') = c /\ calls[c].left = 1 /\ calls'[c].left = 0)
         => Len(fileStrips') = target(densityScale)]_vars

-----------------------------------------------------------------------------
(* Strings *)

\* A JavaScript string is the sequence of its characters, each written as a
\* one-character string.  The halfwidth katakana are written k1, k2, ...

DigitChars == <<"0", "1", "2", "3", "4", "5", "6", "7", "8", "9">>
LowerChars == <<"a", "b", "c", "d", "e", "f", "g", "h", "i", "j", "k", "l", "m", "n", "o", "p", "q", "r", "s", "t", "u", "v", "w", "x", "y", "z">>
UpperChars == <<"A", "B", "C", "D", "E", "F", "G", "H", "I", "J", "K", "L", "M", "N", "O", "P", "Q", "R", "S", "T", "U", "V", "W", "X", "Y", "Z">>

\* Number.prototype.toString of a non-negative integer
RECURSIVE Digits(_)
Digits(n) ==
  IF n < 10 THEN <<DigitChars[n + 1]>>
  ELSE Digits(n \div 10) \o <<DigitChars[(n % 10) + 1]>>

\* x.toString().replace(/\B(?=(\d{3})+(?!\d))/g, ','): a comma before every
\* group of three digits counted from the end, but not at the start
RECURSIVE groupThousands(_)
groupThousands(ds) ==
  IF Len(ds) <= 3 THEN ds
  ELSE groupThousands(SubSeq(ds, 1, Len(ds) - 3)) \o <<",">>
         \o SubSeq(ds, Len(ds) - 2, Len(ds))

\* formatMoneyUSD(n), n an integer
formatMoneyUSD(n) ==
  (IF n < 0 THEN <<"-">> ELSE <<>>) \o <<"$">>
    \o groupThousands(Digits(IF n < 0 THEN -n ELSE n))

\* String.prototype.toUpperCase of one character
toUpperCase(c) ==
  IF \E i \in 1..26 : LowerChars[i] = c
    THEN UpperChars[CHOOSE i \in 1..26 : LowerChars[i] = c]
    ELSE c

\* a || b for strings: the empty string (and a missing field) is falsy
OrElse(a, b) == IF a = <<>> THEN b ELSE a

\* n || '?' for the age: 0 (and a missing field) is falsy
ageText(n) == IF n = 0 THEN <<"?">> ELSE Digits(n)

\* JSON.stringify of a string: quoted, with ", \ and newline escaped
RECURSIVE jsonEscape(_)
jsonEscape(s) ==
  IF s = <<>> THEN <<>>
  ELSE (LET c == Head(s)
        IN IF c = "\"" THEN <<"\\", "\"">>
           ELSE IF c = "\\" THEN <<"\\", "\\">>
           ELSE IF c = "\n" THEN <<"\\", "n">>
           ELSE <<c>>) \o jsonEscape(Tail(s))

jsonString(s) == <<"\"">> \o jsonEscape(s) \o <<"\"">>

\* JSON.stringify of one coordinate: a number is written bare, a string quoted
jsonCoord(c) == IF c.num THEN c.text ELSE jsonString(c.text)

\* JSON.stringify of the three-element coords array
jsonCoords(cs) ==
  <<"[">> \o jsonCoord(cs[1]) \o <<",">> \o jsonCoord(cs[2]) \o <<",">>
    \o jsonCoord(cs[3]) \o <<"]">>

\* String.prototype.indexOf: the first offset (from 0) where k occurs, or -1
indexOf(str, k) ==
  LET at == {i \in 0..(Len(str) - Len(k)) : SubSeq(str, i + 1, i + Len(k)) = k}
  IN IF at = {} THEN -1 ELSE CHOOSE i \in at : \A j \in at : i <= j

\* JavaScript a % b: the result takes the sign of the dividend
JsMod(a, b) == IF a >= 0 THEN a % b ELSE -((-a) % b)

-----------------------------------------------------------------------------
(* The fields of the profiles the suppliers hand out *)

\* coordinates as numbers (their JSON text) or as strings (toFixed)
Num(t) == [num |-> TRUE, text |-> t]
Str(t) == [num |-> FALSE, text |-> t]

\* ProfileFactory.generate(): no nta and no coords; makeId() is six base-36
\* characters, a dash and four more
FakeFields == <<
  [id |-> <<"k", "3", "f", "9", "a", "2", "-", "1", "b", "7", "c">>, age |-> 18, gender |-> <<"f", "e", "m", "a", "l", "e">>,
   job_title |-> <<"E", "n", "g", "i", "n", "e", "e", "r">>, income_usd |-> 30000,
   emotional_state |-> <<"f", "o", "c", "u", "s", "e", "d">>, risk_score |-> 0, nta |-> <<>>,
   coords |-> <<>>],
  [id |-> <<"z", "z", "x", "y", "z", "w", "-", "v", "u", "t", "z">>, age |-> 69, gender |-> <<"n", "o", "n", "-", "b", "i", "n", "a", "r", "y">>,
   job_title |-> <<"D", "a", "t", "a", " ", "S", "c", "i", "e", "n", "t", "i", "s", "t">>, income_usd |-> 250000,
   emotional_state |-> <<"b", "u", "r", "n", "o", "u", "t">>, risk_score |-> 100, nta |-> <<>>,
   coords |-> <<>>],
  [id |-> <<"0", "a", "1", "b", "2", "c", "-", "3", "d", "4", "e">>, age |-> 42, gender |-> <<"m", "a", "l", "e">>,
   job_title |-> <<"P", "M">>, income_usd |-> 120000,
   emotional_state |-> <<"c", "u", "r", "i", "o", "u", "s">>, risk_score |-> 55, nta |-> <<>>,
   coords |-> <<>>] >>

\* synthesizeProfileFromDemographics(row): nta from the row (any text, or ''),
\* coords three toFixed strings
NycFields == <<
  [id |-> <<"B", "K", "0", "3", "2", "-", "1", "b", "7", "c", "-", "1", "2", "3", "4">>, age |-> 29, gender |-> <<"f", "e", "m", "a", "l", "e">>,
   job_title |-> <<"A", "n", "a", "l", "y", "s", "t">>, income_usd |-> 75000,
   emotional_state |-> <<"s", "t", "r", "e", "s", "s", "e", "d">>, risk_score |-> 62, nta |-> <<"B", "K", "0", "3", "2">>,
   coords |-> <<Str(<<"3", "5", "8", ".", "4", "6">>), Str(<<"1", "5", "5", ".", "6", "5">>), Str(<<"4", "1", "1", ".", "0">>)>>],
  [id |-> <<"-", "1", "b", "7", "c", "-", "9", "9", "9", "8">>, age |-> 3, gender |-> <<"m", "a", "l", "e">>,
   job_title |-> <<"Q", "A">>, income_usd |-> 1234567,
   emotional_state |-> <<"f", "l", "o", "w">>, risk_score |-> 12, nta |-> <<>>,
   coords |-> <<Str(<<"1", "0", "0", ".", "0", "0">>), Str(<<"1", "0", "0", ".", "0", "0">>), Str(<<"2", "0", "0", ".", "0">>)>>],
  [id |-> <<"r", "o", "w", "-", "7">>, age |-> 88, gender |-> <<"n", "o", "n", "-", "b", "i", "n", "a", "r", "y">>,
   job_title |-> <<"I", "n", "s", "p", "e", "c", "t", "o", "r">>, income_usd |-> 30500,
   emotional_state |-> <<"c", "a", "l", "m">>, risk_score |-> 7, nta |-> <<"r", "i", "s", "k", "\"", "\\">>,
   coords |-> <<Str(<<"5", "9", "9", ".", "9", "9">>), Str(<<"3", "9", "9", ".", "9", "9">>), Str(<<"7", "9", "9", ".", "9">>)>>] >>

\* SAMPLE_PROFILES: coords are numbers
SampleFields == <<
  [id |-> <<"s", "m", "p", "l", "-", "1">>, age |-> 24, gender |-> <<"f", "e", "m", "a", "l", "e">>,
   job_title |-> <<"S", "t", "u", "d", "e", "n", "t">>, income_usd |-> 42000,
   emotional_state |-> <<"c", "u", "r", "i", "o", "u", "s">>, risk_score |-> 37, nta |-> <<"M", "N", "0", "1", "3">>,
   coords |-> <<Num(<<"3", "5", "8", ".", "4", "6">>), Num(<<"1", "5", "5", ".", "6", "5">>), Num(<<"4", "1", "1">>)>>],
  [id |-> <<"s", "m", "p", "l", "-", "2">>, age |-> 35, gender |-> <<"m", "a", "l", "e">>,
   job_title |-> <<"A", "n", "a", "l", "y", "s", "t">>, income_usd |-> 95000,
   emotional_state |-> <<"f", "o", "c", "u", "s", "e", "d">>, risk_score |-> 29, nta |-> <<"B", "K", "0", "3", "2">>,
   coords |-> <<Num(<<"4", "0", "2", ".", "1", "2">>), Num(<<"2", "1", "0", ".", "2", "2">>), Num(<<"5", "1", "2">>)>>] >>

\* the fields of profile p: the generated and synthesized values are random in
\* the code; here the i-th profile of a list takes the i-th variant in turn
fields(p) ==
  IF p.src = "sample" THEN SampleFields[p.i]
  ELSE IF p.src = "nyc" THEN NycFields[(p.i % Len(NycFields)) + 1]
  ELSE FakeFields[(p.i % Len(FakeFields)) + 1]

\* the profiles encoded: every variant of every supplier
AllProfiles ==
  Range(generateFakeBatch(Len(FakeFields), 1)) \cup Range(SAMPLE_PROFILES)
    \cup Range(synthesize(Len(NycFields), 2))

-----------------------------------------------------------------------------
(* StringPainter *)

Styles == {"json", "kv", "code"}

\* [rand(100, 600).toFixed(2), rand(100, 400).toFixed(2),
\*  rand(200, 800).toFixed(1)]: the draws made for a profile without coords
RandCoordsLow == <<Str(<<"1", "0", "0", ".", "0", "0">>), Str(<<"1", "0", "0", ".", "0", "0">>), Str(<<"2", "0", "0", ".", "0">>)>>
RandCoordsHigh == <<Str(<<"5", "9", "9", ".", "9", "9">>), Str(<<"3", "9", "9", ".", "9", "9">>), Str(<<"7", "9", "9", ".", "9">>)>>
RandCoords == {RandCoordsLow, RandCoordsHigh}

\* `${p.job_title || 'Agent'}+${(p.gender||'U')[0].toUpperCase()}+${p.age||'?'}`
profileLabel(p) ==
  OrElse(p.job_title, <<"A", "g", "e", "n", "t">>) \o <<"+">>
    \o <<toUpperCase(OrElse(p.gender, <<"U">>)[1])>> \o <<"+">> \o ageText(p.age)

HexChars == Range(<<"0", "1", "2", "3", "4", "5", "6", "7", "8", "9", "a", "b", "c", "d", "e", "f", "A", "B", "C", "D", "E", "F">>)

\* (p.id || '0000').replace(/[^a-fA-F0-9]/g, '').slice(-4) || 'A1C3'
idHex(p) ==
  LET hex == SelectSeq(OrElse(p.id, <<"0", "0", "0", "0">>), LAMBDA c : c \in HexChars)
      last4 == SubSeq(hex, Max2(1, Len(hex) - 3), Len(hex))
  IN OrElse(last4, <<"A", "1", "C", "3">>)

\* StringPainter.buildString(p, mode); r is the coords drawn at random, used
\* when p carries none.  risk_score is a number in every profile supplied, so
\* `p.risk_score ?? ''` is its digits.
buildString(p, style, r) ==
  IF style = "kv" THEN
    <<"p", "r", "o", "f", "i", "l", "e", "=">> \o profileLabel(p) \o <<" ", "|", " ", "n", "t", "a", "=">> \o p.nta
      \o <<" ", "|", " ", "m", "o", "o", "d", "=">> \o p.emotional_state
      \o <<" ", "|", " ", "i", "n", "c", "o", "m", "e", "=">> \o formatMoneyUSD(p.income_usd)
      \o <<" ", "|", " ", "r", "i", "s", "k", "=">> \o Digits(p.risk_score)
  ELSE IF style = "code" THEN
    <<"l", "e", "t", " ", "p", "=", "A", "g", "e", "n", "t", "(", " ", "i", "d", ":", "0", "x">> \o idHex(p) \o <<",", " ", "a", "g", "e", ":">> \o ageText(p.age)
      \o <<",", " ", "j", "o", "b", ":", "\"">> \o OrElse(p.job_title, <<"W", "o", "r", "k", "e", "r">>)
      \o <<"\"", ",", " ", "m", "o", "o", "d", ":", "\"">> \o p.emotional_state
      \o <<"\"", ",", " ", "n", "t", "a", ":", "\"">> \o p.nta
      \o <<"\"", ",", " ", "i", "n", "c", "o", "m", "e", ":">> \o Digits(p.income_usd) \o <<" ", ")", ";">>
  ELSE
    LET label == SelectSeq(profileLabel(p) \o <<"\n">>, LAMBDA c : c # "\n")
        coords == IF p.coords # <<>> THEN p.coords ELSE r
    IN <<"{", "\"", "p", "r", "o", "f", "i", "l", "e", "\"", ":">> \o jsonString(label)
         \o <<",", "\"", "n", "t", "a", "\"", ":">> \o jsonString(p.nta)
         \o <<",", "\"", "i", "n", "c", "o", "m", "e", "\"", ":">> \o Digits(p.income_usd)
         \o <<",", "\"", "m", "o", "o", "d", "\"", ":">> \o jsonString(p.emotional_state)
         \o <<",", "\"", "c", "o", "o", "r", "d", "s", "\"", ":">> \o jsonCoords(coords) \o <<"}">>

\* const keys = ['profile', 'nta', 'income', 'mood', 'risk']
keys == <<<<"p", "r", "o", "f", "i", "l", "e">>, <<"n", "t", "a">>, <<"i", "n", "c", "o", "m", "e">>, <<"m", "o", "o", "d">>, <<"r", "i", "s", "k">>>>

computeKeyPositions_noFoundCheck(str) ==
  UNION {LET idx == indexOf(str, k)
         IN {idx + i : i \in 0..(Len(k) - 1)}
         : k \in Range(keys)}

\* StringPainter.computeKeyPositions(str)
computeKeyPositions(str) ==
  UNION {LET idx == indexOf(str, k)
         IN IF idx >= 0 THEN {idx + i : i \in 0..(Len(k) - 1)} ELSE {}
         : k \in Range(keys)}

\* new StringPainter(profile, mode)
StringPainter(profile, style, r) ==
  LET string == buildString(fields(profile), style, r)
  IN [profile |-> profile, mode |-> style, string |-> string,
      keyCharPositions |-> computeKeyPositions(string)]

\* painter.build(profile, mode): encodes again
build(profile, style, r) == buildString(fields(profile), style, r)

\* const filler = '<k1..k5>0123456789<>[]{}-=+*/$%'
filler == <<"k1", "k2", "k3", "k4", "k5">> \o <<"0", "1", "2", "3", "4", "5", "6", "7", "8", "9", "<", ">", "[", "]", "{", "}", "-", "=", "+", "*", "/", "$", "%">>

\* const pad = 40
pad == 40

\* the random picks of one padding run: filler[randi(0, filler.length)] for
\* each of the pad cells, here the picks start, start + step, ...
FillerSame == [start |-> 0, step |-> 0]
FillerMixed == [start |-> 5, step |-> 3]
FillerDraws == {FillerSame, FillerMixed}

fillerRun(d) ==
  [i \in 1..pad |-> filler[((d.start + d.step * (i - 1)) % Len(filler)) + 1]]

\* painter.buildGlyphStream(): left.concat(core, right)
buildGlyphStream(painter, dl, dr) ==
  fillerRun(dl) \o painter.string \o fillerRun(dr)

\* painter.isKeyChar(bufferIndex)
isKeyChar(painter, bufferIndex) ==
  JsMod(bufferIndex - 40 + Len(painter.string) * 10000, Len(painter.string))
    \in painter.keyCharPositions

-----------------------------------------------------------------------------
(* Encoding on its own: the panel path (buildLines) and the column path
   (spawnColumn) applied to one profile and style *)

\* buildLines(profile, style, ...): new StringPainter(profile, style)
\*   .build(profile, style); r1 and r2 are the coords the two encodings draw
buildLines(r1, r2) ==
  /\ encPainter' = StringPainter(encProfile, encStyle, r1)
  /\ encText' = build(encProfile, encStyle, r2)
  /\ UNCHANGED <<encProfile, encStyle, encBuffer>>
  /\ UNCHANGED <<confVars, panelVars, poolVars, dataVars, geomVars, rainVars>>

\* spawnColumn's painter and textBuffer for the profile and style
spawnPainter(r, dl, dr) ==
  /\ encPainter' = StringPainter(encProfile, encStyle, r)
  /\ encBuffer' = buildGlyphStream(encPainter', dl, dr)
  /\ UNCHANGED <<encProfile, encStyle, encText>>
  /\ UNCHANGED <<confVars, panelVars, poolVars, dataVars, geomVars, rainVars>>

InitEnc ==
  /\ encProfile \in AllProfiles
  /\ encStyle \in Styles
  /\ encPainter = NoPainter
  /\ encText = <<>>
  /\ encBuffer = <<>>
  /\ ConfDefault
  /\ PanelIdle
  /\ DataIdle
  /\ GeomIdle
  /\ RainIdle

NextEnc ==
  \/ \E r1 \in RandCoords, r2 \in RandCoords : buildLines(r1, r2)
  \/ \E r \in RandCoords, dl \in FillerDraws, dr \in FillerDraws :
       spawnPainter(r, dl, dr)

SpecEnc == InitEnc /\ [][NextEnc]_vars

-----------------------------------------------------------------------------
(* Glyph columns (glyph mode) *)

\* buildGlyphSet(): latin + digits + punct + kana (45 halfwidth katakana, the
\* first five of them the filler's)
characters ==
  UpperChars \o LowerChars \o DigitChars \o <<"!", "@", "#", "$", "%", "^", "&", "*", "(", ")", "_", "+", "-", "=", "[", "]", "{", "}", ";", ":", "\"", ",", ".", "/", "<", ">", "?">>
    \o <<"k1", "k2", "k3", "k4", "k5", "k6", "k7", "k8", "k9", "k10", "k11", "k12", "k13", "k14", "k15", "k16", "k17", "k18", "k19", "k20", "k21", "k22", "k23", "k24", "k25", "k26", "k27", "k28", "k29", "k30", "k31", "k32", "k33", "k34", "k35", "k36", "k37", "k38", "k39", "k40", "k41", "k42", "k43", "k44", "k45">>

\* the most ticks in one behaviour
MaxFrames == 4

\* the speed slider position chosen, in hundredths: 3.0, the highest
SpeedValues == {300}

\* the random draws of one spawnColumn call: y = randi(-screenH, 0) at either
\* end, speed = rand(60, 180), streamLength = randi(10, 40), the glyph index
\* randi(0, characters.length) put in all 80 glyphIndices, drift in hundredths,
\* the index Math.random() * columnCount as the left or right edge (recycle),
\* the coords and the two padding runs
DrawSlow ==
  [top |-> TRUE, speed |-> 60, streamLength |-> 39, glyph |-> 0, drift |-> -20,
   right |-> FALSE, coords |-> RandCoordsLow, left |-> FillerSame,
   pads |-> FillerMixed]

DrawFast ==
  [top |-> FALSE, speed |-> 179, streamLength |-> 10,
   glyph |-> Len(characters) - 1,
   drift |-> 19, right |-> TRUE, coords |-> RandCoordsHigh,
   left |-> FillerMixed, pads |-> FillerSame]

\* the draws of the columns of one resetColumns or update call, by column
ResetDraws == {
  [i \in 1..maxColumns |-> DrawSlow],
  [i \in 1..maxColumns |-> DrawFast],
  [i \in 1..maxColumns |-> IF i % 2 = 1 THEN DrawFast ELSE DrawSlow] }

\* the random events of one update call: Math.random() < 0.2 (shimmer) or
\* Math.random() < 0.002 (rebind) comes true for one column at most, the
\* eighth (the last of the least count)
EventColumns == {8}

NoEvent == [col |-> 0, shimmer |-> FALSE, rebind |-> FALSE]

TickEvents ==
  {NoEvent} \cup
    {[col |-> k, shimmer |-> s, rebind |-> ~s] : k \in EventColumns, s \in BOOLEAN}

\* takeNextProfile() on a filled pool
takeNextProfile(pool, index) == pool[(index % Len(pool)) + 1]

\* spawnColumn(index, screenH), with x for Math.floor(index * (clientWidth /
\* columnCount)); y in thousandths of a pixel, speed in hundredths of px/s.
\* `via` records which code path made the column's painter.
spawnColumn(x, screenH, profile, style, scale, d, via) ==
  LET painter == StringPainter(profile, style, d.coords)
  IN [x |-> x,
      y |-> (IF d.top THEN -screenH ELSE -1) * 1000,
      speed |-> d.speed * scale,
      streamLength |-> d.streamLength,
      glyphIndices |-> [i \in 1..80 |-> d.glyph],
      drift |-> d.drift,
      painter |-> painter,
      textBuffer |-> buildGlyphStream(painter, d.left, d.pads),
      headHighlightTimer |-> 0,
      via |-> via]

\* resetColumns() in glyph mode: numCols columns, each with the next profile
resetGlyphColumns(w, h, style, pool, index, draws) ==
  [i \in 1..numCols(w, densityScale) |->
     spawnColumn(((i - 1) * w) \div numCols(w, densityScale), h,
                 takeNextProfile(pool, index + i - 1), style, speedScale,
                 draws[i], "spawn")]

\* update: col.y += col.speed * speedScale * dt, dt in ms
movedY(col, dt) == col.y + (col.speed * speedScale * dt) \div 10000

recycles_byHead(col, dt) == movedY(col, dt) > (clientHeight + 20) * 1000

\* update: col.y - col.streamLength * size > h + 20
recycles(col, dt) ==
  movedY(col, dt) - col.streamLength * glyphSize * 1000 > (clientHeight + 20) * 1000

\* the takeNextProfile calls update makes for column i (one by a recycle, one
\* by a rebind), and for the columns before it
taken(cols, i, dt, ev) ==
  (IF recycles(cols[i], dt) THEN 1 ELSE 0)
    + (IF ev.col = i /\ ev.rebind THEN 1 ELSE 0)

RECURSIVE takenBefore(_, _, _, _)
takenBefore(cols, i, dt, ev) ==
  IF i = 1 THEN 0
  ELSE takenBefore(cols, i - 1, dt, ev) + taken(cols, i - 1, dt, ev)

\* update: Math.floor(col.y / size) % col.textBuffer.length, y in thousandths
headIndex(y, len) == JsMod(y \div (glyphSize * 1000), len)

\* the body of update's loop for one column; index is this.profileIndex when
\* the loop reaches it, dt in ms, e the random events that come true for it, d
\* the draws of a recycle
updateColumn(col, index, dt, e, d) ==
  LET headBufferIndex == headIndex(movedY(col, dt), Len(col.textBuffer))
      c2 == IF recycles(col, dt)
              THEN spawnColumn(IF d.right THEN clientWidth - 1 ELSE 0, clientHeight,
                               takeNextProfile(profilePool, index), stringStyle,
                               speedScale, d, "recycle")
              ELSE [col EXCEPT !.y = movedY(col, dt),
                               !.headHighlightTimer =
                                  IF isKeyChar(col.painter, headBufferIndex)
                                    THEN 280 ELSE @]
      c3 == IF e.shimmer THEN [c2 EXCEPT !.glyphIndices[80] = 67] ELSE c2
      c4 == IF e.rebind
              THEN LET painter ==
                         StringPainter(
                           takeNextProfile(profilePool,
                                           IF recycles(col, dt) THEN index + 1 ELSE index),
                           stringStyle, RandCoordsHigh)
                   IN [c3 EXCEPT !.painter = painter,
                                 !.textBuffer = buildGlyphStream(painter, FillerMixed,
                                                                 FillerMixed),
                                 !.via = "rebind"]
              ELSE c3
  IN [c4 EXCEPT !.headHighlightTimer = Max2(0, @ - dt)]

\* for (const col of this.columns) { ... }
updateColumns(cols, index, dt, ev, draws) ==
  [i \in 1..Len(cols) |->
     updateColumn(cols[i], index + takenBefore(cols, i, dt, ev), dt,
                  IF ev.col = i THEN ev ELSE NoEvent, draws[i])]

tickDt_unclamped(elapsed) == elapsed

\* tick: const dt = Math.min(0.05, (t - last) / 1000), in ms; elapsed is t - last
tickDt(elapsed) == Min2(50, elapsed)

\* tick() in glyph mode, run from the callback requestAnimationFrame scheduled:
\* dt = Math.min(0.05, (t - last) / 1000); update(dt); draw();
\* requestAnimationFrame(tick).  update rebuilds the columns and returns when the count is off;
\* draw changes nothing of the state.
RainTick(elapsed, ev, draws) ==
  LET dt == tickDt(elapsed)
      reset == desiredCols(clientWidth, densityScale) # columnCount
      index == IF reset THEN profileIndex + numCols(clientWidth, densityScale)
               ELSE profileIndex + takenBefore(columns, Len(columns) + 1, dt, ev)
  IN /\ mode = "glyph"
     /\ rafPending > 0
     /\ frames < MaxFrames
     /\ index <= MaxProfileIndex
     /\ frames' = frames + 1
     /\ lastTick' = [elapsed |-> elapsed, dt |-> dt,
                     did |-> <<"update", "draw", "requestAnimationFrame">>,
                     reset |-> reset,
                     recycled |-> IF reset THEN {}
                                  ELSE {i \in 1..Len(columns) : recycles(columns[i], dt)}]
     /\ rafPending' = (rafPending - 1) + 1
     /\ columns' = IF reset
                     THEN resetGlyphColumns(clientWidth, clientHeight, stringStyle,
                                            profilePool, profileIndex, draws)
                     ELSE updateColumns(columns, profileIndex, dt, ev, draws)
     /\ columnCount' = IF reset THEN numCols(clientWidth, densityScale)
                       ELSE columnCount
     /\ fileStrips' = IF reset THEN <<>> ELSE fileStrips
     /\ profileIndex' = index
     /\ UNCHANGED <<confVars, dataVars, geomVars, encVars, calls, profilePool, strip>>

\* qs('speed') input: CONFIG.speedScale = parseFloat(value)
SpeedInput(v) ==
  /\ v # speedScale
  /\ speedScale' = v
  /\ UNCHANGED <<densityScale, clientWidth, mode, stringStyle, clientHeight>>
  /\ UNCHANGED <<dataVars, geomVars, encVars, panelVars, poolVars, rainVars>>

drawBufferIndex_noOffset(col, i) ==
  JsMod((col.y \div (glyphSize * 1000)) - i, Len(col.textBuffer))

\* draw(): the buffer index of trail cell i of a column
drawBufferIndex(col, i) ==
  JsMod((col.y \div (glyphSize * 1000)) - i + 10000, Len(col.textBuffer))

\* draw(): const useFiller = this.characters.indexOf(ch) === -1
useFiller(ch) == ch \notin Range(characters)

\* draw(): the pulse condition of trail cell i
drawPulse(col, i) ==
  LET bufferIndex == drawBufferIndex(col, i)
  IN /\ ~useFiller(col.textBuffer[bufferIndex + 1])
     /\ \/ isKeyChar(col.painter, bufferIndex)
        \/ (i = 0 /\ col.headHighlightTimer > 0)

\* buildGlyphSheet: the atlas is a grid of cols = 32 cells per row and
\* rows = Math.ceil(characters.length / cols) rows, each cell size x size
sheetCols == 32
sheetRows == (Len(characters) + sheetCols - 1) \div sheetCols
sheetWidth == sheetCols * glyphSize
sheetHeight == sheetRows * glyphSize

\* this.characters.indexOf(ch) for the characters of the glyph set
characterIndex == [ch \in Range(characters) |-> indexOf(characters, <<ch>>)]

\* draw(): the glyph blitted for trail cell i: the character's place in the
\* glyph set, or for a character outside it an entry of glyphIndices
glyphIndex(col, i) ==
  LET bufferIndex == drawBufferIndex(col, i)
      ch == col.textBuffer[bufferIndex + 1]
      gi == IF ch \in DOMAIN characterIndex THEN characterIndex[ch] ELSE -1
  IN IF gi = -1
       THEN col.glyphIndices[JsMod(i + bufferIndex, Len(col.glyphIndices)) + 1]
       ELSE gi

\* draw(): the source corner of a glyph's cell in the atlas
sx(g) == (g % sheetCols) * glyphSize
sy(g) == (g \div sheetCols) * glyphSize

\* the densities the columns are run at, in hundredths: 1.0 as written, and
\* 1.6, which the URL preset `dense` sets
RainDensityValues == {100, 160}

\* after bootstrap with the URL presets mode=glyph and style, and dense or not:
\* the constructor ran resetColumns in file mode (40 compositions requested, in
\* flight) and UI.bind set CONFIG.mode and CONFIG.stringStyle; with `dense` it
\* then dispatched the density input, whose handler ran resetColumns in glyph
\* mode.  The surface is 200 x 48.
InitRain ==
  /\ mode = "glyph"
  /\ stringStyle \in Styles
  /\ speedScale = 100
  /\ densityScale \in RainDensityValues
  /\ clientWidth = 200
  /\ clientHeight = 48
  /\ calls = <<[kind |-> "resetColumns", issued |-> target(100),
                left |-> target(100)]>>
  /\ fileStrips = <<>>
  /\ frames = 0
  /\ lastTick = NoTick
  /\ rafPending = 1
  /\ strip = NoStrip
  /\ GeomIdle
  /\ EncIdle
  /\ IF densityScale = 100
       THEN /\ DataConstructed("fake", target(100))
            /\ columns = <<>>
            /\ columnCount = 0
       ELSE /\ DataConstructed("fake", target(100) + numCols(clientWidth, densityScale))
            /\ columnCount = numCols(clientWidth, densityScale)
            /\ \E draws \in ResetDraws :
                 columns = resetGlyphColumns(clientWidth, clientHeight, stringStyle,
                                             generateFakeBatch(64, 1), target(100),
                                             draws)

\* the random draws a tick consumes: spawnColumn's (ResetDraws) only if it
\* rebuilds the columns or recycles one, the per-column events (TickEvents)
\* only if it advances the columns
DrawsOf(elapsed) ==
  IF \/ desiredCols(clientWidth, densityScale) # columnCount
     \/ \E i \in 1..Len(columns) : recycles(columns[i], tickDt(elapsed))
    THEN ResetDraws
    ELSE {[i \in 1..maxColumns |-> DrawSlow]}

EventsOf ==
  IF desiredCols(clientWidth, densityScale) # columnCount
    THEN {NoEvent} ELSE TickEvents

NextRain ==
  \/ \E elapsed \in {16, 2000}, ev \in EventsOf :
       \E draws \in DrawsOf(elapsed) : RainTick(elapsed, ev, draws)
  \/ \E v \in SpeedValues : SpeedInput(v)

SpecRain == InitRain /\ [][NextRain]_vars

-----------------------------------------------------------------------------
(* Encoding claims *)

\* C8: encoding is a pure function of the profile and the style: the text
\* buildLines gets from painter.build is the string the painter was constructed
\* with, and its key positions are the painter's, for every profile and style.
C8_EncodingPure ==
  encText # <<>> =>
    /\ encText = encPainter.string
    /\ computeKeyPositions(encText) = encPainter.keyCharPositions

\* every profile and style encodes to a string whose key positions are offsets
\* into it
EncodedKeysInRange ==
  \A p \in AllProfiles, s \in Styles, r \in RandCoords :
    LET str == buildString(fields(p), s, r)
    IN computeKeyPositions(str) \subseteq 0..(Len(str) - 1)

\* C9: every offset in a painter's key-position set lies in [0, length of its
\* string), for every profile and style; and the set of a column's painter is
\* the one computed from the painter's string, which encodes the painter's
\* profile in the painter's style and is the core of the column's text buffer,
\* whether the column was spawned, recycled or rebound.
C9_KeyPositionsFollowString ==
  /\ EncodedKeysInRange
  /\ \A i \in 1..Len(columns) :
       LET painter == columns[i].painter
           len == Len(painter.string)
       IN /\ painter.keyCharPositions \subseteq 0..(len - 1)
          /\ painter.keyCharPositions = computeKeyPositions(painter.string)
          /\ \E r \in RandCoords :
               painter.string = buildString(fields(painter.profile), painter.mode, r)
          /\ painter.mode = stringStyle
          /\ SubSeq(columns[i].textBuffer, pad + 1, pad + len) = painter.string
          /\ Len(columns[i].textBuffer) = len + 2 * pad

\* a recycled column and a rebound column, each with keys found in its string
C9_Witness ==
  /\ \E i \in 1..Len(columns) :
       columns[i].via = "recycle" /\ columns[i].painter.keyCharPositions # {}
  /\ \E i \in 1..Len(columns) :
       columns[i].via = "rebind" /\ columns[i].painter.keyCharPositions # {}
  /\ \E i \in 1..Len(columns) : columns[i].via = "spawn"

\* the buffer indices of the two padding runs of a column
padding(col) ==
  (0..(pad - 1)) \cup
    ((pad + Len(col.painter.string))..(2 * pad + Len(col.painter.string) - 1))

\* C10: padding positions are never key: for every column, isKeyChar is false
\* at every buffer index of the left and of the right padding, and no trail
\* cell that render resolves to a padding index is pulsed as a key character.
C10_PaddingNeverKey ==
  \A k \in 1..Len(columns) :
    /\ \A j \in padding(columns[k]) : ~isKeyChar(columns[k].painter, j)
    /\ \A i \in 0..(columns[k].streamLength - 1) :
         drawBufferIndex(columns[k], i) \in padding(columns[k])
           => ~(drawPulse(columns[k], i) /\ isKeyChar(columns[k].painter,
                                                     drawBufferIndex(columns[k], i)))

-----------------------------------------------------------------------------
(* File-strip pool claims, continued *)

\* the latest call of resetColumns
LastReset ==
  CHOOSE c \in 1..Len(calls) :
    /\ calls[c].kind = "resetColumns"
    /\ \A b \in (c + 1)..Len(calls) : calls[b].kind # "resetColumns"

\* C11: a panel requested before a reset does not outlive it: when the
\* compositions the latest reset requested have all completed and a tick runs,
\* no strip left in the pool was requested by a call made before that reset.
C11_StalePanelsDropped ==
  [][(LastReset > 1 /\ calls[LastReset].left = 0 /\ PanelUpdate)
       => \A i \in 1..Len(fileStrips') : fileStrips'[i] >= LastReset]_vars

-----------------------------------------------------------------------------
(* Ticker claims *)

\* C12: whatever time elapsed since the previous frame, the dt a tick passes
\* to update is at most 50 ms (and not negative); each tick calls update, then
\* draw, then requestAnimationFrame, once each, so exactly one tick callback
\* is scheduled after every tick.
C12_TickClampedAndRescheduled ==
  /\ rafPending = 1
  /\ frames > 0 =>
       /\ lastTick.dt >= 0 /\ lastTick.dt <= 50
       /\ lastTick.dt <= lastTick.elapsed
       /\ lastTick.did = <<"update", "draw", "requestAnimationFrame">>

\* a tick after a stall of two seconds
C12_Witness ==
  /\ frames > 1
  /\ lastTick.elapsed = 2000
  /\ lastTick.dt = 50
  /\ ~lastTick.reset

-----------------------------------------------------------------------------
(* Glyph column claims *)

\* the tail of a column whose head is at y: y - streamLength * size, in
\* thousandths of a pixel
tailOf(col, y) == y - col.streamLength * glyphSize * 1000

\* C13: a tick that advances the columns recycles a column exactly when its
\* advanced tail is more than 20 px below the surface height.  The number of
\* columns is unchanged; a column not recycled is at its advanced y, tail at
\* most 20 px below the bottom; a recycled column has a fresh head above the
\* top edge, y in [-H, 0), its highlight cleared, and a profile taken from the
\* pool in this tick.
C13_RecycleExactlyPastBottom ==
  [][(frames' = frames + 1 /\ ~lastTick'.reset) =>
       /\ Len(columns') = Len(columns)
       /\ columnCount' = columnCount
       /\ \A i \in 1..Len(columns) :
            LET y1 == columns[i].y
                        + (columns[i].speed * speedScale * lastTick'.dt) \div 10000
            IN /\ tailOf(columns'[i], columns'[i].y) <= (clientHeight + 20) * 1000
               /\ IF tailOf(columns[i], y1) > (clientHeight + 20) * 1000
                    THEN /\ columns'[i].via \in {"recycle", "rebind"}
                         /\ columns'[i].y >= -clientHeight * 1000
                         /\ columns'[i].y < 0
                         /\ columns'[i].headHighlightTimer = 0
                         /\ \E k \in profileIndex..(profileIndex' - 1) :
                              columns'[i].painter.profile
                                = takeNextProfile(profilePool, k)
                    ELSE /\ columns'[i].y = y1
                         /\ columns'[i].streamLength = columns[i].streamLength
                         /\ columns'[i].via # "rebind"
                              => columns'[i].painter = columns[i].painter]_vars

\* a tick has just recycled some columns and advanced others
C13_Witness ==
  /\ frames > 1
  /\ ~lastTick.reset
  /\ \E i \in lastTick.recycled : columns[i].via = "recycle" /\ columns[i].y < 0
  /\ \E i \in 1..Len(columns) : i \notin lastTick.recycled /\ columns[i].y > 0

-----------------------------------------------------------------------------
(* One FileStrip (panel mode) *)

\* the most ticks a strip is followed for
MaxStripTicks == 30

\* the random draws of spawnFileStripFrom and what the composition gave: the
\* bitmap is 240 wide and one or two lines high (lines * lineHeight + 24),
\* x = rand(0, clientWidth - w) and y = -h - rand(0, clientHeight) at either
\* end, speed = rand(speedMin, speedMax) * speedScale at either end (px/s)
StripHeights == {1 * 18 + 24, 2 * 18 + 24}
StripSpeeds == {80, 159}

\* new FileStrip({ bitmap, w, h, x, y, speed }): x and y in thousandths of a
\* pixel, _jitterTimer in ms
FileStrip(bitmap, w, h, x, y, speed) ==
  [bitmap |-> bitmap, w |-> w, h |-> h, x |-> x, y |-> y, speed |-> speed,
   jitterTimer |-> 0]

\* spawnFileStripFrom(profile), composition complete
spawnFileStripFrom(bitmap, h, left, top, speed) ==
  FileStrip(bitmap, 240, h,
            IF left THEN 0 ELSE (clientWidth - 240) * 1000 - 1,
            IF top THEN -h * 1000 ELSE (-h - clientHeight) * 1000 + 1,
            (speed * speedScale) \div 100)

\* FileStrip.update(dt, H), dt in ms; jx is (Math.random() - 0.5) * 12 and jt
\* is 2 + Math.random() * 2, drawn when the jitter timer has run out
FileStripUpdate(s, dt, H, jx, jt) ==
  LET y1 == s.y + s.speed * dt
      timer == s.jitterTimer - dt
  IN [s EXCEPT !.y = IF y1 - s.h * 1000 > H * 1000 THEN -s.h * 1000 ELSE y1,
               !.x = IF timer <= 0 THEN s.x + jx ELSE s.x,
               !.jitterTimer = IF timer <= 0 THEN jt ELSE timer]

\* a tick in file mode, for the strip: update(dt) runs s.update(dt, h)
StripTick(elapsed, jx, jt) ==
  /\ mode = "file"
  /\ frames < MaxStripTicks
  /\ strip.jitterTimer - tickDt(elapsed) > 0 => (jx = -6000 /\ jt = 2000)
  /\ frames' = frames + 1
  /\ lastTick' = [elapsed |-> elapsed, dt |-> tickDt(elapsed),
                  did |-> <<"update", "draw", "requestAnimationFrame">>,
                  reset |-> FALSE, recycled |-> {}]
  /\ strip' = FileStripUpdate(strip, tickDt(elapsed), clientHeight, jx, jt)
  /\ UNCHANGED <<confVars, dataVars, geomVars, encVars, panelVars, poolVars>>
  /\ UNCHANGED <<columns, columnCount, rafPending>>

\* a strip just pushed into the pool, on the surface as configured (48 high)
InitStrip ==
  /\ densityScale = 100
  /\ clientWidth = 1000
  /\ clientHeight = 48
  /\ mode = "file"
  /\ stringStyle = "json"
  /\ speedScale = 100
  /\ \E h \in StripHeights, left \in BOOLEAN, top \in BOOLEAN, speed \in StripSpeeds :
       strip = spawnFileStripFrom(1, h, left, top, speed)
  /\ columns = <<>>
  /\ columnCount = 0
  /\ frames = 0
  /\ lastTick = NoTick
  /\ rafPending = 1
  /\ PanelIdle
  /\ DataIdle
  /\ GeomIdle
  /\ EncIdle

NextStrip ==
  \E elapsed \in {16, 2000}, jx \in {-6000, 5999}, jt \in {2000, 3999} :
    StripTick(elapsed, jx, jt)

SpecStrip == InitStrip /\ [][NextStrip]_vars

\* C14: FileStrip.update wraps a strip to y = -h as soon as its advanced top y
\* is greater than the surface height H, and otherwise leaves it at the
\* advanced y; so after every advance the strip's top is not below the bottom
\* edge, and bitmap, size and speed are kept.
C14_WrapsOncePastBottom ==
  [][frames' = frames + 1 =>
       LET y1 == strip.y + strip.speed * lastTick'.dt
       IN /\ strip'.y = IF y1 > clientHeight * 1000 THEN -strip.h * 1000 ELSE y1
          /\ strip'.y <= clientHeight * 1000
          /\ strip'.bitmap = strip.bitmap
          /\ strip'.speed = strip.speed
          /\ strip'.h = strip.h /\ strip'.w = strip.w]_vars

-----------------------------------------------------------------------------
(* Column count claims *)

\* C15: the target column count is recomputed on every tick: at the end of
\* every glyph-mode tick the number of columns is columnCount and is the
\* target the tick computed from the current width and density; and a tick that
\* found a mismatch has rebuilt every column and advanced none.
C15_CountIsTargetAfterTick ==
  frames > 0 =>
    /\ Len(columns) = columnCount
    /\ columnCount = desiredCols(clientWidth, densityScale)
    /\ lastTick.reset =>
         \A i \in 1..Len(columns) :
           columns[i].via = "spawn" /\ columns[i].y < 0

\* C16: panel composition is never over-requested: in every state of panel
\* mode the strips in the pool plus the compositions still in flight number at
\* most the target clamp(floor(40 * density), 10, 100).
C16_NeverOverRequested ==
  Len(fileStrips) + InFlight <= target(densityScale)

-----------------------------------------------------------------------------
(* Head glyph claims *)

\* C17: advance and render agree on the head glyph: after a tick that advanced
\* the columns, the buffer index update tested with isKeyChar for a column is
\* the index draw resolves for its head cell (i = 0).
C17_HeadIndexAgrees ==
  (frames > 0 /\ ~lastTick.reset) =>
    \A i \in 1..Len(columns) :
      headIndex(columns[i].y, Len(columns[i].textBuffer))
        = drawBufferIndex(columns[i], 0)

-----------------------------------------------------------------------------
(* Render range claims *)

\* C18: render never reads out of range: for every column and every trail
\* cell, the buffer index lies in [0, buffer length), the glyph index blitted
\* lies in [0, number of atlas glyphs), its atlas cell lies inside the atlas
\* bitmap, and distinct glyph indices have distinct atlas cells (the cell
\* determines the index).
C18_RenderInRange ==
  /\ \A c \in 1..Len(columns) :
       /\ columns[c].y >= -clientHeight * 1000
       /\ \A i \in 0..(columns[c].streamLength - 1) :
            LET bufferIndex == drawBufferIndex(columns[c], i)
                g == glyphIndex(columns[c], i)
            IN /\ bufferIndex >= 0
               /\ bufferIndex < Len(columns[c].textBuffer)
               /\ g >= 0
               /\ g < Len(characters)
               /\ sx(g) >= 0 /\ sx(g) + glyphSize <= sheetWidth
               /\ sy(g) >= 0 /\ sy(g) + glyphSize <= sheetHeight
  /\ \A g \in 0..(Len(characters) - 1) :
       (sy(g) \div glyphSize) * sheetCols + (sx(g) \div glyphSize) = g

\* after a tick that advanced the columns: a column whose head is above the
\* top, a column whose filler entry a shimmer replaced or whose text a rebind
\* replaced, and trail cells of both kinds (glyph set and filler)
C18_Witness ==
  /\ frames > 1
  /\ ~lastTick.reset
  /\ \E c \in 1..Len(columns) :
       columns[c].y < 0 /\ columns[c].via = "recycle"
  /\ \E c \in 1..Len(columns) :
       /\ columns[c].glyphIndices[80] # columns[c].glyphIndices[1]
       /\ \E i, j \in 0..(columns[c].streamLength - 1) :
            /\ useFiller(columns[c].textBuffer[drawBufferIndex(columns[c], i) + 1])
            /\ ~useFiller(columns[c].textBuffer[drawBufferIndex(columns[c], j) + 1])

====
